---- MODULE Spec2Model ----
(***************************************************************************)
(* Uncertainty quantification of climada: the evaluators CalcImpact and    *)
(* CalcCostBenefit (sample rows -> metric tables) and the output store     *)
(* UncOutput (metric queries, SALib pairing check, hdf5 save / load).      *)
(*                                                                         *)
(* Python values are records tagged by "type"; every type has its own      *)
(* field names.  A DataFrame is its column names, its rows and its attrs.  *)
(* An object's __dict__ is an association list in insertion order.         *)
(***************************************************************************)
EXTENDS Integers, Sequences, FiniteSets, TLC

\* ---------------------------------------------------------------- bounds
MaxN == 2                       \* largest number of sample rows
ParamVals == {0, 1}             \* values a sampled parameter takes
NCpus == 2                      \* worker count of the pool, when one is given
MaxEvals == 1                   \* largest number of uncertainty() calls in a run
MaxSens == 1                    \* largest number of sensitivity calls in a run
MaxSaves == 2                   \* largest number of to_hdf5 calls in a run

\* ---------------------------------------------------------------- helpers
RECURSIVE SeqOfSet(_)
SeqOfSet(S) ==
    IF S = {} THEN <<>>
    ELSE LET x == CHOOSE y \in S : TRUE IN <<x>> \o SeqOfSet(S \ {x})

RECURSIVE Flatten(_)
Flatten(ss) == IF ss = <<>> THEN <<>> ELSE Head(ss) \o Flatten(Tail(ss))

Range(s) == {s[i] : i \in DOMAIN s}

Min(a, b) == IF a < b THEN a ELSE b

SeqsUpTo(S, n) == UNION {[1..k -> S] : k \in 0..n}

\* ---------------------------------------------------------------- python values
None == [type |-> "NoneType"]
StrV(s) == [type |-> "str", s |-> s]
BoolV(b) == [type |-> "bool", b |-> b]
IntV(i) == [type |-> "int", i |-> i]
Raise(e) == [type |-> "raise", exc |-> e]
Items(its) == [type |-> "tuple", items |-> its]

\* an exception and what its message names: column labels, row indices
RaiseWith(e, labels, rows) ==
    [type |-> "raise", exc |-> e, labels |-> labels, rows |-> rows]

\* a python list
List(l) == [type |-> "list", l |-> l]

\* the values of the metrics: a float, a numpy array, a dict as its items
Float(x) == [type |-> "float", v |-> x]
NdArray(a) == [type |-> "ndarray", v |-> a]
Dict(d) == [type |-> "dict", v |-> d]

\* str(value): the text of the value, typed str
IntText == [n \in {0, 1, 2, 3, 5, 10, 20, 50, 100, 250} |->
              CASE n = 0 -> "0" [] n = 1 -> "1" [] n = 2 -> "2" [] n = 3 -> "3"
                [] n = 5 -> "5" [] n = 10 -> "10" [] n = 20 -> "20"
                [] n = 50 -> "50" [] n = 100 -> "100" [] n = 250 -> "250"]

PyStr(v) ==
    CASE v.type = "str" -> v
      [] v.type = "bool" -> StrV(IF v.b THEN "True" ELSE "False")
      [] v.type = "int" -> StrV(IntText[v.i])
      [] v.type = "NoneType" -> StrV("None")

\* pd.DataFrame: columns, rows (each row one cell per column), attrs
DataFrame(cols, rows, attrs) ==
    [type |-> "DataFrame", columns |-> cols, data |-> rows, attrs |-> attrs]

EmptyDataFrame == DataFrame(<<>>, <<>>, {})

IsDataFrame(v) == v.type = "DataFrame"

\* DataFrame.empty: any axis of length 0
DfEmpty(df) == Len(df.data) = 0 \/ Len(df.columns) = 0

NRows(df) == Len(df.data)

NaN == -1

\* pd.concat(dfs, axis=1): columns side by side, rows aligned on the index,
\* a table without row i gives NaN there; no table at all is a ValueError
Concat1(dfs) ==
    IF dfs = <<>> THEN Raise("ValueError")
    ELSE LET n == CHOOSE m \in {NRows(dfs[k]) : k \in DOMAIN dfs} :
                      \A k \in DOMAIN dfs : NRows(dfs[k]) <= m
             Cells(k, i) == IF i <= NRows(dfs[k]) THEN dfs[k].data[i]
                            ELSE [c \in 1..Len(dfs[k].columns) |-> NaN]
         IN DataFrame(Flatten([k \in DOMAIN dfs |-> dfs[k].columns]),
                      [i \in 1..n |-> Flatten([k \in DOMAIN dfs |-> Cells(k, i)])],
                      {})

\* ---------------------------------------------------------------- __dict__
HasAttr(obj, name) == \E i \in DOMAIN obj : obj[i].k = name

GetAttr(obj, name) == obj[CHOOSE i \in DOMAIN obj : obj[i].k = name].v

SetAttr(obj, name, val) ==
    IF HasAttr(obj, name)
    THEN [i \in DOMAIN obj |-> IF obj[i].k = name THEN [k |-> name, v |-> val]
                               ELSE obj[i]]
    ELSE Append(obj, [k |-> name, v |-> val])

\* attribute names
SamplesName == "samples_df"
UncName(metric) == metric \o "_unc_df"
SensName(metric) == metric \o "_sens_df"

\* sub in name (python's substring test)
Contains(name, sub) ==
    \E i \in 1..(Len(name) - Len(sub) + 1) : SubSeq(name, i, i + Len(sub) - 1) = sub

\* ---------------------------------------------------------------- UncOutput
\* Table of recommended pairing between salib sampling and sensitivity methods
SALIB_COMPATIBILITY ==
    [m \in {"fast", "rbd_fast", "morris", "sobol", "delta", "dgsm", "ff"} |->
        CASE m = "fast" -> <<"fast_sampler">>
          [] m = "rbd_fast" -> <<"latin">>
          [] m = "morris" -> <<"morris">>
          [] m = "sobol" -> <<"saltelli">>
          [] m = "delta" -> <<"latin">>
          [] m = "dgsm" -> <<"fast_sampler", "latin", "morris", "saltelli",
                             "latin", "ff">>
          [] m = "ff" -> <<"ff">>]

\* UncOutput(samples_df, unit)
UncOutputInit(samples_df, unit) ==
    << [k |-> SamplesName, v |-> samples_df], [k |-> "unit", v |-> unit] >>

samples_df(self) == GetAttr(self, SamplesName)

\* UncImpactOutput(samples_df, aai_agg_unc_df, ..., unit)
UncImpactOutputInit(samples, aai_agg_unc_df, freq_curve_unc_df, eai_exp_unc_df, at_event_unc_df, tot_value_unc_df, unit) ==
    UncOutputInit(samples, unit) \o
    << [k |-> "aai_agg_unc_df", v |-> aai_agg_unc_df],
       [k |-> "freq_curve_unc_df", v |-> freq_curve_unc_df],
       [k |-> "eai_exp_unc_df", v |-> eai_exp_unc_df],
       [k |-> "at_event_unc_df", v |-> at_event_unc_df],
       [k |-> "tot_value_unc_df", v |-> tot_value_unc_df] >>

\* dict lookup d[key] on a set of <<key, value>> pairs
DictHas(d, key) == \E kv \in d : kv[1] = key
DictGet(d, key) == (CHOOSE kv \in d : kv[1] = key)[2]

\* property sampling_method: samples_df.attrs['sampling_method']
sampling_method(self) ==
    IF DictHas(samples_df(self).attrs, "sampling_method")
    THEN DictGet(samples_df(self).attrs, "sampling_method")
    ELSE Raise("KeyError")

\* property n_samples
n_samples(self) == NRows(samples_df(self))

check_salib_Inverted(self, sensitivity_method) ==
    LET sm == sampling_method(self) IN
    IF sm.type = "raise" THEN [ret |-> sm, warnings |-> 0]
    ELSE IF sensitivity_method \notin DOMAIN SALIB_COMPATIBILITY
    THEN [ret |-> Raise("KeyError"), warnings |-> 0]
    ELSE IF sm.s \in Range(SALIB_COMPATIBILITY[sensitivity_method])
    THEN [ret |-> BoolV(FALSE), warnings |-> 1]
    ELSE [ret |-> BoolV(TRUE), warnings |-> 0]

\* check_salib(sensitivity_method): [ret, warnings]; the left operand of
\* 'not in' is evaluated first, then the table lookup
check_salib(self, sensitivity_method) ==
    LET sm == sampling_method(self) IN
    IF sm.type = "raise" THEN [ret |-> sm, warnings |-> 0]
    ELSE IF sensitivity_method \notin DOMAIN SALIB_COMPATIBILITY
    THEN [ret |-> Raise("KeyError"), warnings |-> 0]
    ELSE IF sm.s \notin Range(SALIB_COMPATIBILITY[sensitivity_method])
    THEN [ret |-> BoolV(FALSE), warnings |-> 1]
    ELSE [ret |-> BoolV(TRUE), warnings |-> 0]

\* the names of __dict__, in order, that satisfy P
RECURSIVE ScanDict(_, _)
ScanDict(self, sub) ==
    IF self = <<>> THEN <<>>
    ELSE LET a == Head(self) IN
         (IF IsDataFrame(a.v) /\ ~DfEmpty(a.v) /\ Contains(a.k, sub)
          THEN <<a.k>> ELSE <<>>) \o ScanDict(Tail(self), sub)

uncertainty_metrics_AnyTable(self) == ScanDict(self, "df")

\* property uncertainty_metrics
uncertainty_metrics(self) == ScanDict(self, "unc")

\* property sensitivity_metrics
sensitivity_metrics(self) == ScanDict(self, "sens")

get_uncertainty_NoExcept(self, metric_list) ==
    LET ml == IF metric_list.type = "NoneType" THEN uncertainty_metrics(self)
              ELSE metric_list.l
    IN IF \E i \in DOMAIN ml : ~HasAttr(self, ml[i])
       THEN Raise("AttributeError")
       ELSE IF \E i \in DOMAIN ml : ~IsDataFrame(GetAttr(self, ml[i]))
       THEN Raise("TypeError")
       ELSE Concat1([i \in DOMAIN ml |-> GetAttr(self, ml[i])])

get_uncertainty_SkipsUnknown(self, metric_list) ==
    LET ml == IF metric_list.type = "NoneType" THEN uncertainty_metrics(self)
              ELSE metric_list.l
        known == SelectSeq(ml, LAMBDA m : HasAttr(self, m))
    IN IF known = <<>> THEN EmptyDataFrame
       ELSE IF \E i \in DOMAIN known : ~IsDataFrame(GetAttr(self, known[i]))
       THEN Raise("TypeError")
       ELSE Concat1([i \in DOMAIN known |-> GetAttr(self, known[i])])

\* get_uncertainty(metric_list); metric_list is None or a list
get_uncertainty(self, metric_list) ==
    LET ml == IF metric_list.type = "NoneType" THEN uncertainty_metrics(self)
              ELSE metric_list.l
    IN IF \E i \in DOMAIN ml : ~HasAttr(self, ml[i])
       THEN EmptyDataFrame                       \* except AttributeError
       ELSE IF \E i \in DOMAIN ml : ~IsDataFrame(GetAttr(self, ml[i]))
       THEN Raise("TypeError")
       ELSE Concat1([i \in DOMAIN ml |-> GetAttr(self, ml[i])])

\* a selection of a table: the row labels kept from the table, and the cells
IndexedFrame(cols, index, rows) == [columns |-> cols, index |-> index, data |-> rows]

\* pd.DataFrame([]) as a selection
EmptySelection == IndexedFrame(<<>>, <<>>, <<>>)

SelectionEmpty(sel) == Len(sel.index) = 0 \/ Len(sel.columns) = 0

\* the increasing sequence of a set of row labels
RECURSIVE SortedSeq(_)
SortedSeq(S) ==
    IF S = {} THEN <<>>
    ELSE LET m == CHOOSE x \in S : \A y \in S : x <= y
         IN <<m>> \o SortedSeq(S \ {m})

RowsWhere_All(df, salib_si) == [i \in 1..NRows(df) |-> i]

\* the labels of the rows with df['si'] == salib_si
RowsWhere(df, salib_si) ==
    LET c == CHOOSE k \in DOMAIN df.columns : df.columns[k] = "si"
    IN SortedSeq({i \in 1..NRows(df) : df.data[i][c] = StrV(salib_si)})

\* select_dtypes('number').columns: the positions of the float columns
NumberColumns(df) ==
    SortedSeq({c \in DOMAIN df.columns :
                  \A i \in 1..NRows(df) : df.data[i][c].type = "float"})

OtherColumns(df) ==
    SortedSeq({c \in DOMAIN df.columns :
                  \E i \in 1..NRows(df) : df.data[i][c].type # "float"})

\* the rows and columns of df at the given positions
Selection(df, rows, cols) ==
    IndexedFrame([k \in DOMAIN cols |-> df.columns[cols[k]]], rows,
                 [j \in DOMAIN rows |-> [k \in DOMAIN cols |-> df.data[rows[j]][cols[k]]]])

\* pd.concat([a, b], axis=1) of two selections: the union of the row labels,
\* NaN where a selection has no such row
ConcatSel(a, b) ==
    LET index == SortedSeq(Range(a.index) \cup Range(b.index))
        Cells(sel, label) ==
            IF label \in Range(sel.index)
            THEN sel.data[CHOOSE j \in DOMAIN sel.index : sel.index[j] = label]
            ELSE [c \in DOMAIN sel.columns |-> Float(NaN)]
    IN IndexedFrame(a.columns \o b.columns, index,
                    [j \in DOMAIN index |-> Cells(a, index[j]) \o Cells(b, index[j])])

\* the loop of get_sensitivity over metric_list and its return
RECURSIVE SensitivityLoop(_, _, _, _, _)
SensitivityLoop(self, salib_si, metric_list, df_all, df_meta) ==
    IF metric_list = <<>>
    THEN LET res == ConcatSel(df_meta, df_all)        \* reset_index(drop=True)
         IN DataFrame(res.columns, res.data, {})
    ELSE LET metric == Head(metric_list)
             rest == Tail(metric_list)
             submetric_df == GetAttr(self, metric)
             rows == RowsWhere(submetric_df, salib_si)
         IN IF ~HasAttr(self, metric)                 \* except AttributeError
            THEN SensitivityLoop(self, salib_si, rest, df_all, df_meta)
            ELSE IF ~IsDataFrame(submetric_df) THEN Raise("AttributeError")
            ELSE IF DfEmpty(submetric_df)
            THEN SensitivityLoop(self, salib_si, rest, df_all, df_meta)
            ELSE IF "si" \notin Range(submetric_df.columns) THEN Raise("KeyError")
            ELSE SensitivityLoop(self, salib_si, rest,
                    ConcatSel(df_all, Selection(submetric_df, rows,
                                                NumberColumns(submetric_df))),
                    IF SelectionEmpty(df_meta)
                    THEN Selection(submetric_df, rows, OtherColumns(submetric_df))
                    ELSE df_meta)

\* get_sensitivity(salib_si, metric_list); metric_list is None or a list
get_sensitivity(self, salib_si, metric_list) ==
    SensitivityLoop(self, salib_si,
                    IF metric_list.type = "NoneType" THEN sensitivity_metrics(self)
                    ELSE metric_list.l,
                    EmptySelection, EmptySelection)

\* ---------------------------------------------------------------- plots
\* bool(value) as 'not value' takes it: None is false, the truth value of a
\* DataFrame, empty or not, is ambiguous and pandas raises ValueError
Truth(v) ==
    IF v.type = "NoneType" THEN BoolV(FALSE)
    ELSE IF IsDataFrame(v) THEN Raise("ValueError")
    ELSE BoolV(TRUE)

\* UncOutput.plot_rp_uncertainty up to the guard: the ValueError of the
\* guard or of the truth value, or the axes labelled with the columns
plot_rp_uncertainty(self) ==
    LET unc_df == IF HasAttr(self, "freq_curve_unc_df")
                  THEN GetAttr(self, "freq_curve_unc_df")
                  ELSE None
        not_unc_df == Truth(unc_df)
    IN IF not_unc_df.type = "raise" THEN not_unc_df
       ELSE IF ~not_unc_df.b THEN Raise("ValueError")
       ELSE IF DfEmpty(unc_df) THEN Raise("ValueError")
       ELSE [type |-> "axes", yticklabels |-> unc_df.columns]

\* ---------------------------------------------------------------- input variables
\* row[labels]: every label has to be a column, a KeyError otherwise
MissingLabels(df, labels) ==
    {labels[j] : j \in DOMAIN labels} \ {df.columns[c] : c \in DOMAIN df.columns}

\* row[labels].to_dict() of row i of the samples: a set of <<label, value>>
RowDict(df, i, labels) ==
    {<<labels[j], df.data[i][CHOOSE c \in DOMAIN df.columns :
                                 df.columns[c] = labels[j]]>> : j \in DOMAIN labels}

\* the sampled parameter the models below depend on
ParamLabel == "x"

ParamOf(d) == IF DictHas(d, ParamLabel) THEN DictGet(d, ParamLabel) ELSE 0

\* the labels of the input variables of the two evaluators
ImpactLabels == <<ParamLabel>>
CostBenLabels == <<ParamLabel>>

\* a parameter value the risk models reject with an exception of their own
BadParam == 2

ModelRejects(d) == ParamOf(d) = BadParam

ModelError == RaiseWith("ValueError", {}, {})

\* ---------------------------------------------------------------- risk models
\* Impact().calc(exp, impf, haz) with the exposure resolved from exp_samples
ImpactModel(exp_samples) ==
    LET x == ParamOf(exp_samples) IN
    [aai_agg |-> 10 + x,
     freq_curve |-> [r \in {5, 10, 20, 50, 100, 250} |-> r + x],
     eai_exp |-> <<x, x + 1>>,
     at_event |-> <<x + 2>>,
     tot_value |-> 100]

Measure(x, d) == [risk |-> 20 + x + d, risk_transf |-> 0, cost |-> <<7, 1>>]

\* a value of the parameter for which the future input variables, when
\* given, evaluate to no hazard and no entity
NoFutureParam == 3

\* CostBenefit().calc(haz, ent, haz_future, ent_future, save_imp=False, **kwargs):
\* imp_meas_present is only filled when the future hazard / entity of the row
\* is given
CostBenefitModel(ent_samples, has_future, kwargs) ==
    LET x == ParamOf(ent_samples)
        d == IF \E i \in DOMAIN kwargs : kwargs[i][1] = "imp_time_depen"
             THEN 1 ELSE 0
        meas == << <<"no measure", Measure(x, d)>>, <<"m1", Measure(x + 1, d)>> >>
    IN [imp_meas_present |-> IF has_future /\ x # NoFutureParam THEN meas
                             ELSE <<>>,
        imp_meas_future |-> meas,
        tot_climate_risk |-> 50 + x + d,
        benefit |-> << <<"m1", 5 + x + d>> >>,
        cost_ben_ratio |-> << <<"m1", 2 + d>> >>]

\* ---------------------------------------------------------------- CalcImpact
ImpactMetricNames == <<"aai_agg", "freq_curve", "at_event", "eai_exp", "tot_value">>

DefaultRp == <<5, 10, 20, 50, 100, 250>>

map_impact_calc_NamesOrder(self, df, i) ==
    LET exp_samples == RowDict(df, i, ImpactLabels)
        imp == ImpactModel(exp_samples)
        freq_curve == [k \in DOMAIN self.rp.l |-> imp.freq_curve[self.rp.l[k]]]
        eai_exp == IF self.calc_eai_exp.b THEN imp.eai_exp ELSE <<>>
        at_event == IF self.calc_at_event.b THEN imp.at_event ELSE <<>>
    IN IF MissingLabels(df, ImpactLabels) # {}
       THEN RaiseWith("KeyError", MissingLabels(df, ImpactLabels), {})
       ELSE IF ModelRejects(exp_samples) THEN ModelError
       ELSE List(<<Float(imp.aai_agg), NdArray(freq_curve), NdArray(at_event),
                   NdArray(eai_exp), Float(imp.tot_value)>>)

map_impact_calc_IgnoreToggles(self, df, i) ==
    LET exp_samples == RowDict(df, i, ImpactLabels)
        imp == ImpactModel(exp_samples)
        freq_curve == [k \in DOMAIN self.rp.l |-> imp.freq_curve[self.rp.l[k]]]
    IN IF MissingLabels(df, ImpactLabels) # {}
       THEN RaiseWith("KeyError", MissingLabels(df, ImpactLabels), {})
       ELSE IF ModelRejects(exp_samples) THEN ModelError
       ELSE List(<<Float(imp.aai_agg), NdArray(freq_curve), NdArray(imp.eai_exp),
                   NdArray(imp.at_event), Float(imp.tot_value)>>)

\* _map_impact_calc(self, sample_iterrows): the list of five metrics, or the
\* exception of the row selection or of the risk model
map_impact_calc(self, df, i) ==
    LET exp_samples == RowDict(df, i, ImpactLabels)
        imp == ImpactModel(exp_samples)
        freq_curve == [k \in DOMAIN self.rp.l |-> imp.freq_curve[self.rp.l[k]]]
        eai_exp == IF self.calc_eai_exp.b THEN imp.eai_exp ELSE <<>>
        at_event == IF self.calc_at_event.b THEN imp.at_event ELSE <<>>
    IN IF MissingLabels(df, ImpactLabels) # {}
       THEN RaiseWith("KeyError", MissingLabels(df, ImpactLabels), {})
       ELSE IF ModelRejects(exp_samples) THEN ModelError
       ELSE List(<<Float(imp.aai_agg), NdArray(freq_curve), NdArray(eai_exp),
                   NdArray(at_event), Float(imp.tot_value)>>)

\* pd.DataFrame(values, columns=[name]) of one scalar per row
ScalarFrame(vals, name) ==
    DataFrame(<<name>>, [i \in DOMAIN vals |-> <<vals[i]>>], {})

\* pd.DataFrame(arrays): one column per element, labelled 0, 1, ...
ArrayFrame(arrs) ==
    LET w == IF arrs = <<>> THEN 0
             ELSE CHOOSE m \in {Len(arrs[i]) : i \in DOMAIN arrs} :
                      \A i \in DOMAIN arrs : Len(arrs[i]) <= m
    IN DataFrame([c \in 1..w |-> IntText[c - 1]],
                 [i \in DOMAIN arrs |->
                     [c \in 1..w |-> IF c <= Len(arrs[i]) THEN arrs[i][c] ELSE NaN]],
                 {})

\* zip(*metrics): the k-th entry of every row's list, in row order
Column(metrics, k) == [i \in DOMAIN metrics |-> metrics[i].l[k].v]

\* the assignments at the end of CalcImpact.uncertainty
ImpactFanIn(unc_output, imp_metrics, rp) ==
    LET aai_agg_list == Column(imp_metrics, 1)
        freq_curve_list == Column(imp_metrics, 2)
        eai_exp_list == Column(imp_metrics, 3)
        at_event_list == Column(imp_metrics, 4)
        tot_value_list == Column(imp_metrics, 5)
        s1 == SetAttr(unc_output, UncName("aai_agg"),
                      ScalarFrame(aai_agg_list, "aai_agg"))
        s2 == SetAttr(s1, UncName("freq_curve"),
                      DataFrame([k \in DOMAIN rp |-> "rp" \o IntText[rp[k]]],
                                freq_curve_list, {}))
        s3 == SetAttr(s2, UncName("eai_exp"), ArrayFrame(eai_exp_list))
        s4 == SetAttr(s3, UncName("at_event"), ArrayFrame(at_event_list))
    IN SetAttr(s4, UncName("tot_value"), ScalarFrame(tot_value_list, "tot_value"))

\* ---------------------------------------------------------------- CalcCostBenefit
CostBenMetricNames == <<"tot_climate_risk", "benefit", "cost_ben_ratio",
                        "imp_meas_present", "imp_meas_future">>

\* _map_costben_calc(self, param_sample, **kwargs): the list of five
\* metrics, or the exception of the row selection or of the risk model
map_costben_calc(df, i, has_future, kwargs) ==
    LET ent_samples == RowDict(df, i, CostBenLabels)
        cb == CostBenefitModel(ent_samples, has_future, kwargs)
    IN IF MissingLabels(df, CostBenLabels) # {}
       THEN RaiseWith("KeyError", MissingLabels(df, CostBenLabels), {})
       ELSE IF ModelRejects(ent_samples) THEN ModelError
       ELSE List(<<Dict(cb.imp_meas_present), Dict(cb.imp_meas_future),
                   Float(cb.tot_climate_risk), Dict(cb.benefit),
                   Dict(cb.cost_ben_ratio)>>)

\* the keys of a list of dicts, in order of first appearance
RECURSIVE AddKeys(_, _)
AddKeys(keys, d) ==
    IF d = <<>> THEN keys
    ELSE AddKeys(IF Head(d)[1] \in Range(keys) THEN keys
                 ELSE Append(keys, Head(d)[1]), Tail(d))

RECURSIVE AllKeys(_, _)
AllKeys(keys, dicts) ==
    IF dicts = <<>> THEN keys
    ELSE AllKeys(AddKeys(keys, Head(dicts)), Tail(dicts))

ItemOr(d, key, default) ==
    IF \E j \in DOMAIN d : d[j][1] = key
    THEN d[CHOOSE j \in DOMAIN d : d[j][1] = key][2] ELSE default

\* pd.DataFrame(dicts): one row per dict, one column per key
DictFrame(dicts) ==
    LET keys == AllKeys(<<>>, dicts) IN
    DataFrame(keys,
              [i \in DOMAIN dicts |->
                  [c \in DOMAIN keys |-> ItemOr(dicts[i], keys[c], NaN)]],
              {})

\* df.columns = [column + suffix for column in df.columns]
RenameColumns(df, suffix) ==
    [df EXCEPT !.columns = [c \in DOMAIN df.columns |-> df.columns[c] \o suffix]]

imp_metric_names == <<"risk", "risk_transf", "cost_meas", "cost_ins">>

\* met_dic of one row: four entries per measure
RECURSIVE MetDic(_, _)
MetDic(imp, period) ==
    IF imp = <<>> THEN <<>>
    ELSE LET meas == Head(imp)[1]
             imp_dic == Head(imp)[2]
             metrics == <<imp_dic.risk, imp_dic.risk_transf>> \o imp_dic.cost
         IN [k \in 1..Min(Len(imp_metric_names), Len(metrics)) |->
                <<meas \o " - " \o imp_metric_names[k] \o " - " \o period,
                  metrics[k]>>]
            \o MetDic(Tail(imp), period)

\* df.append(pd.DataFrame(met_dic), ignore_index=True): an empty met_dic is a
\* frame without rows and appends nothing
DfAppend(df, met_dic) ==
    IF met_dic = <<>> THEN df
    ELSE LET cols == AddKeys(df.columns, met_dic) IN
         DataFrame(cols,
                   [i \in DOMAIN df.data |->
                       [c \in DOMAIN cols |-> IF c <= Len(df.columns)
                                              THEN df.data[i][c] ELSE NaN]]
                   \o << [c \in DOMAIN cols |-> ItemOr(met_dic, cols[c], NaN)] >>,
                   {})

RECURSIVE AppendAll(_, _, _)
AppendAll(df, imp_meas, period) ==
    IF imp_meas = <<>> THEN df
    ELSE AppendAll(DfAppend(df, MetDic(Head(imp_meas), period)),
                   Tail(imp_meas), period)

ImpMeasFrame_SkipFirst(imp_meas, period) ==
    IF imp_meas[1] = <<>> THEN EmptyDataFrame
    ELSE AppendAll(EmptyDataFrame, Tail(imp_meas), period)

\* the table of one period: empty unless the dictionary of the first row
\* holds a measure
ImpMeasFrame(imp_meas, period) ==
    IF imp_meas[1] = <<>> THEN EmptyDataFrame
    ELSE AppendAll(EmptyDataFrame, imp_meas, period)

\* {key: str(val)} as a tuple of items
FrozenKwargs(kwargs) ==
    Items([i \in DOMAIN kwargs |-> <<kwargs[i][1], PyStr(kwargs[i][2])>>])

\* the assignments at the end of CalcCostBenefit.calc_uncertainty
CostBenFanIn(unc_output, cb_metrics, cost_benefit_kwargs) ==
    LET imp_meas_present == Column(cb_metrics, 1)
        imp_meas_future == Column(cb_metrics, 2)
        tot_climate_risk == Column(cb_metrics, 3)
        benefit == Column(cb_metrics, 4)
        cost_ben_ratio == Column(cb_metrics, 5)
        s1 == SetAttr(unc_output, UncName("tot_climate_risk"),
                      ScalarFrame(tot_climate_risk, "tot_climate_risk"))
        s2 == SetAttr(s1, UncName("benefit"),
                      RenameColumns(DictFrame(benefit), " Benef"))
        s3 == SetAttr(s2, UncName("cost_ben_ratio"),
                      RenameColumns(DictFrame(cost_ben_ratio), " CostBen"))
        s4 == SetAttr(s3, "imp_meas_" \o "present" \o "_unc_df",
                      ImpMeasFrame(imp_meas_present, "present"))
        s5 == SetAttr(s4, "imp_meas_" \o "future" \o "_unc_df",
                      ImpMeasFrame(imp_meas_future, "future"))
    IN SetAttr(s5, "cost_benefit_kwargs", FrozenKwargs(cost_benefit_kwargs))

\* chunksize = min(unc_output.n_samples // pool.ncpus, 100)
ChunkSize(n, ncpus) == Min(n \div ncpus, 100)

\* ---------------------------------------------------------------- sensitivity
SalibIndices == <<"S1", "S1_conf", "ST">>

\* an index of one output column: stands for the estimator of SALib
SensIndex(df, c, si) ==
    Cardinality({df.data[i][c] : i \in DOMAIN df.data})
    + (IF si = "ST" THEN 1 ELSE 0)

\* the sensitivity table of one uncertainty table: one row per index and
\* parameter, the descriptor columns si and param (strings), one column of
\* floats per output
SensFrame(unc_df, param_labels) ==
    IF DfEmpty(unc_df) THEN EmptyDataFrame
    ELSE DataFrame(<<"si", "param">> \o unc_df.columns,
                   Flatten([s \in DOMAIN SalibIndices |->
                       [p \in DOMAIN param_labels |->
                           <<StrV(SalibIndices[s]), StrV(param_labels[p])>> \o
                           [c \in DOMAIN unc_df.columns |->
                               Float(SensIndex(unc_df, c, SalibIndices[s]))]]]),
                   {})

RECURSIVE SetSens(_, _, _)
SetSens(out, unc_output, names) ==
    IF names = <<>> THEN out
    ELSE SetSens(SetAttr(out, SensName(Head(names)),
                         SensFrame(GetAttr(unc_output, UncName(Head(names))),
                                   samples_df(unc_output).columns)),
                 unc_output, Tail(names))

\* Calc.sensitivity(unc_output, sensitivity_method, sensitivity_kwargs)
Sensitivity(unc_output, metric_names, sensitivity_method, sensitivity_kwargs) ==
    LET s1 == SetSens(unc_output, unc_output, metric_names)
        s2 == SetAttr(s1, "sensitivity_method", StrV(sensitivity_method))
    IN SetAttr(s2, "sensitivity_kwargs", FrozenKwargs(sensitivity_kwargs))

\* ---------------------------------------------------------------- hdf5
\* Path(filename).with_suffix('.hdf5')
RECURSIVE LastDot(_, _)
LastDot(name, i) ==
    IF i = 0 THEN 0
    ELSE IF SubSeq(name, i, i) = "." THEN i ELSE LastDot(name, i - 1)

WithSuffix(name, suffix) ==
    LET d == LastDot(name, Len(name)) IN
    (IF d > 1 THEN SubSeq(name, 1, d - 1) ELSE name) \o suffix

\* the default file name: "unc_output" + now, in DATA_DIR
DefaultFilename == "data/unc_output" \o "2021-01-01-000000"

\* a string as h5py stores it, and as it reads it back
Utf8(s) == [type |-> "bytes", utf8 |-> s]
Decode(b) == b.utf8

\* u_hdf5.to_string
to_string(b) == StrV(Decode(b))

\* a file that does not exist, and a container file: the tables of the
\* HDFStore by key, the metadata of /samples_df, the h5py side records
NoFile == [exists |-> FALSE]
NewFile == [exists |-> TRUE, store |-> <<>>, metadata |-> {}, h5 |-> <<>>]

\* store.put(var_name, var_val) for every DataFrame of __dict__
RECURSIVE PutAll(_, _)
PutAll(store, dict) ==
    IF dict = <<>> THEN store
    ELSE LET a == Head(dict) IN
         PutAll(IF IsDataFrame(a.v) THEN (("/" \o a.k) :> a.v) @@ store ELSE store,
                Tail(dict))

\* the path to_hdf5 writes to
SavePath(filename) ==
    WithSuffix(IF filename.type = "NoneType" THEN DefaultFilename ELSE filename.s,
               ".hdf5")

\* to_hdf5(self, filename): [fs, ret], the files afterwards and the returned
\* path or the exception
to_hdf5(self, fs, filename) ==
    LET save_path == SavePath(filename)
        f0 == IF fs[save_path].exists THEN fs[save_path] ELSE NewFile
        f1 == [f0 EXCEPT !.store = PutAll(f0.store, self),
                         !.metadata = samples_df(self).attrs]
        Out(f, r) == [fs |-> [fs EXCEPT ![save_path] = f], ret |-> r]
        unit == GetAttr(self, "unit")
        f2 == [f1 EXCEPT !.h5 = ("impact_unit" :> Utf8(unit.s)) @@ f1.h5]
        f3 == [f2 EXCEPT !.h5 = ("sensitivity_method" :>
                                   Utf8(GetAttr(self, "sensitivity_method").s))
                                 @@ f2.h5]
        f4 == [f3 EXCEPT !.h5 = ("sensitivity_kwargs" :> {}) @@ f3.h5]
        kw == GetAttr(self, "sensitivity_kwargs").items
        f5 == [f4 EXCEPT !.h5 = ("sensitivity_kwargs" :>
                                   {<<kw[i][1], Utf8(PyStr(kw[i][2]).s)>> :
                                       i \in DOMAIN kw})
                                 @@ f4.h5]
    IN IF unit.type # "str" THEN Out(f1, Raise("TypeError"))
       ELSE IF "impact_unit" \in DOMAIN f1.h5 THEN Out(f1, Raise("OSError"))
       ELSE IF ~HasAttr(self, "sensitivity_method")
       THEN Out(f2, Raise("AttributeError"))
       ELSE IF "sensitivity_method" \in DOMAIN f2.h5 THEN Out(f2, Raise("OSError"))
       ELSE IF "sensitivity_kwargs" \in DOMAIN f3.h5 THEN Out(f3, Raise("ValueError"))
       ELSE IF ~HasAttr(self, "sensitivity_kwargs")
       THEN Out(f4, Raise("AttributeError"))
       ELSE Out(f5, StrV(save_path))

RECURSIVE LoadAll_KeepSlash(_, _, _)
LoadAll_KeepSlash(unc_data, store, keys) ==
    IF keys = <<>> THEN unc_data
    ELSE LET var_name == Head(keys) IN
         LoadAll_KeepSlash(SetAttr(unc_data, var_name, store[var_name]),
                           store, Tail(keys))

\* setattr(unc_data, var_name[1:], store.get(var_name)) for every key
RECURSIVE LoadAll(_, _, _)
LoadAll(unc_data, store, keys) ==
    IF keys = <<>> THEN unc_data
    ELSE LET var_name == Head(keys) IN
         LoadAll(SetAttr(unc_data, SubSeq(var_name, 2, Len(var_name)),
                         store[var_name]),
                 store, Tail(keys))

\* the body of from_hdf5 on an existing file: the loaded store or the
\* exception
ReadFile(f) ==
    LET d1 == LoadAll(UncOutputInit(EmptyDataFrame, None), f.store,
                      SeqOfSet(DOMAIN f.store))
        d2 == SetAttr(d1, SamplesName,
                      [samples_df(d1) EXCEPT !.attrs = f.metadata])
        d3 == SetAttr(d2, "unit", StrV(Decode(f.h5["impact_unit"])))
        d4 == SetAttr(d3, "sensitivity_method",
                      StrV(Decode(f.h5["sensitivity_method"])))
        grp == f.h5["sensitivity_kwargs"]
        keys == SeqOfSet({kv[1] : kv \in grp})
        d5 == SetAttr(d4, "sensitivity_kwargs",
                      Items([i \in DOMAIN keys |->
                                <<keys[i], to_string(DictGet(grp, keys[i]))>>]))
    IN IF "impact_unit" \notin DOMAIN f.h5 THEN Raise("TypeError")
       ELSE IF "sensitivity_method" \notin DOMAIN f.h5 THEN Raise("TypeError")
       ELSE IF "sensitivity_kwargs" \notin DOMAIN f.h5 THEN Raise("KeyError")
       ELSE [type |-> "UncOutput", dict |-> d5]

\* without the test of filename.exists(), pd.HDFStore creates the file and
\* finds no /samples_df in it
from_hdf5_NoExistsCheck(fs, filename) ==
    IF ~fs[filename].exists
    THEN [fs |-> [fs EXCEPT ![filename] = NewFile], ret |-> Raise("KeyError")]
    ELSE [fs |-> fs, ret |-> ReadFile(fs[filename])]

\* from_hdf5(filename): [fs, ret], the files afterwards and the loaded store,
\* None or the exception
from_hdf5(fs, filename) ==
    IF ~fs[filename].exists THEN [fs |-> fs, ret |-> None]
    ELSE [fs |-> fs, ret |-> ReadFile(fs[filename])]

\* ---------------------------------------------------------------- state
VARIABLES
    unc_output,     \* __dict__ of the UncOutput store
    calc_impact,    \* rp, calc_eai_exp, calc_at_event of the CalcImpact object
    pc,             \* "idle", or "fanout" while uncertainty() maps the rows
    call,           \* the arguments of the running uncertainty() call
    results,        \* the evaluated rows, [i, v], in order of completion
    n_calls,        \* risk model invocations of the latest uncertainty() call
    files,          \* the file system: path -> file
    saved,          \* path -> the store a completed to_hdf5 wrote there
    last,           \* the latest operation: name, argument, outcome, state before
    ops             \* number of calls so far: evaluations, sensitivity, saves

vars == <<unc_output, calc_impact, pc, call, results, n_calls, files, saved,
          last, ops>>

Absent == [type |-> "absent"]
NoCall == [calc |-> "none"]
NotSaved == [type |-> "absent"]

Paths == {"out", "out.hdf5"}

SamplingMethods == {"saltelli", "latin", "morris"}

\* attrs of a sample table made by make_sample, and of a bare table
SampleAttrs ==
    {{}} \cup {{<<"sampling_method", StrV(m)>>,
                <<"sampling_kwargs", [type |-> "dict", d |-> {<<"N", IntV(2)>>}]>>} :
               m \in SamplingMethods}

\* value_unit of the evaluators
ValueUnit == "USD"

\* the record of an operation: its name, argument and outcome, the warnings
\* it logged, for uncertainty() the pool flag, the order the rows were
\* completed in, the row whose exception ended it (0: none), the chunk size
\* it computed and the one the pool dispatched with, the state it started
\* from, and the calibration run: its keyword arguments and what it returned
Last(op, arg, ret, warnings, pool) ==
    [op |-> op, arg |-> arg, ret |-> ret, warnings |-> warnings,
     pool |-> pool, order |-> <<>>, row |-> 0, chunksize |-> 0, dispatched |-> 0,
     pre |-> unc_output, pre_files |-> files, pre_calc |-> calc_impact,
     calib |-> None]

\* a store as constructed and evaluators that have not run
InitStore(store) ==
    /\ unc_output = store
    /\ calc_impact = [rp |-> Absent, calc_eai_exp |-> Absent,
                      calc_at_event |-> Absent]
    /\ pc = "idle"
    /\ call = NoCall
    /\ results = <<>>
    /\ n_calls = 0
    /\ files = [p \in Paths |-> NoFile]
    /\ saved = [p \in Paths |-> NotSaved]
    /\ last = [op |-> "init"]
    /\ ops = [eval |-> 0, sens |-> 0, save |-> 0]

\* samples whose columns are the labels of the input variables and whose
\* values the risk models accept
Init ==
    \E rows \in SeqsUpTo(ParamVals, MaxN), attrs \in SampleAttrs :
        InitStore(UncOutputInit(
            DataFrame(<<ParamLabel>>, [i \in DOMAIN rows |-> <<rows[i]>>], attrs),
            None))

\* the columns of a sample table: the labels, a column more, a label missing
SampleColumns == {<<ParamLabel>>, <<ParamLabel, "y">>, <<"y">>}

\* the tables of an earlier evaluation of n rows, handed to UncImpactOutput
EarlierTables(n) ==
    [aai_agg |-> ScalarFrame([i \in 1..n |-> 7], "aai_agg"),
     freq_curve |-> DataFrame(<<"rp10">>, [i \in 1..n |-> <<7>>], {}),
     eai_exp |-> ArrayFrame([i \in 1..n |-> <<>>]),
     at_event |-> ArrayFrame([i \in 1..n |-> <<>>]),
     tot_value |-> ScalarFrame([i \in 1..n |-> 7], "tot_value")]

\* any samples: also values the risk models reject and columns that are not
\* the labels of the input variables, on a store constructed with the
\* samples only or with the tables of an earlier evaluation
InitAnySamples ==
    \E rows \in SeqsUpTo(ParamVals \cup {BadParam}, MaxN), cols \in SampleColumns,
       with_tables \in BOOLEAN :
        LET samples == DataFrame(cols,
                                 [i \in DOMAIN rows |->
                                     IF Len(cols) = 1 THEN <<rows[i]>>
                                     ELSE <<rows[i], 0>>],
                                 {})
            t == EarlierTables(Len(rows))
        IN InitStore(IF with_tables
                     THEN UncImpactOutputInit(samples, t.aai_agg, t.freq_curve,
                                              t.eai_exp, t.at_event, t.tot_value,
                                              StrV(ValueUnit))
                     ELSE UncOutputInit(samples, None))

\* samples with rows for which the future input variables evaluate to None
InitMeasures ==
    \E rows \in SeqsUpTo(ParamVals \cup {NoFutureParam}, MaxN) :
        InitStore(UncOutputInit(
            DataFrame(<<ParamLabel>>, [i \in DOMAIN rows |-> <<rows[i]>>], {}),
            None))

\* ---------------------------------------------------------------- uncertainty()
\* the arguments rp, calc_eai_exp, calc_at_event the calls are made with
ImpactArgs ==
    { [rp |-> None, calc_eai_exp |-> FALSE, calc_at_event |-> FALSE],
      [rp |-> List(<<10>>), calc_eai_exp |-> TRUE, calc_at_event |-> FALSE],
      [rp |-> List(<<5, 10>>), calc_eai_exp |-> FALSE, calc_at_event |-> TRUE] }

\* the keyword arguments calc_uncertainty passes on to CostBenefit.calc
CostBenKwargs == { <<>>, << <<"imp_time_depen", IntV(2)>> >> }

\* the risk model was invoked unless the selection of the row's columns failed
InvokesModel(r) == ~(r.type = "raise" /\ r.exc = "KeyError")

\* multiprocess' Pool.map without a chunksize: the rows over four times the
\* workers, rounded up
PoolDefaultChunk(n, ncpus) ==
    (n \div (ncpus * 4)) + (IF n % (ncpus * 4) # 0 THEN 1 ELSE 0)

\* the record of a dispatched call: the chunk size computed by the evaluator
\* and the one the pool dispatches with, 'chunsize' being no keyword of its map
Dispatch(calc, pool, kwargs, has_future) ==
    [calc |-> calc, pool |-> pool, kwargs |-> kwargs, has_future |-> has_future,
     chunksize |-> IF pool THEN ChunkSize(n_samples(unc_output), NCpus) ELSE 0,
     dispatched |-> IF pool THEN PoolDefaultChunk(n_samples(unc_output), NCpus)
                    ELSE 0]

\* rp with its default, and self.rp, self.calc_eai_exp, self.calc_at_event as
\* uncertainty() assigns them from its arguments
Settings(args) ==
    [rp |-> IF args.rp.type = "NoneType" THEN List(DefaultRp) ELSE args.rp,
     calc_eai_exp |-> BoolV(args.calc_eai_exp),
     calc_at_event |-> BoolV(args.calc_at_event)]

\* CalcImpact.uncertainty after the guard: the unit, the settings on self,
\* the calibration run of row 0 and the dispatch of the rows
UncertaintyRun(args, pool) ==
    LET self == Settings(args)
        calib == map_impact_calc(self, samples_df(unc_output), 1)
    IN /\ unc_output' = SetAttr(unc_output, "unit", StrV(ValueUnit))
       /\ calc_impact' = self
       /\ n_calls' = IF InvokesModel(calib) THEN 1 ELSE 0
       /\ results' = <<>>
       /\ IF calib.type = "raise"
          THEN /\ last' = [Last("uncertainty", args, calib, 0, pool)
                              EXCEPT !.row = 1]
               /\ UNCHANGED <<pc, call>>
          ELSE /\ call' = Dispatch("impact", pool, <<>>, FALSE)
               /\ pc' = "fanout"
               /\ last' = [Last("uncertainty", args, [type |-> "running"], 0,
                                pool)
                              EXCEPT !.calib = [kwargs |-> <<>>, ret |-> calib]]

\* the unit is assigned before the emptiness of the samples is tested
UncertaintyStart_UnitFirst(args, pool) ==
    /\ pc = "idle"
    /\ ops.eval < MaxEvals
    /\ ops' = [ops EXCEPT !.eval = @ + 1]
    /\ UNCHANGED <<files, saved>>
    /\ IF DfEmpty(samples_df(unc_output))
       THEN /\ unc_output' = SetAttr(unc_output, "unit", StrV(ValueUnit))
            /\ last' = Last("uncertainty", args, Raise("ValueError"), 0, pool)
            /\ n_calls' = 0
            /\ UNCHANGED <<calc_impact, pc, call, results>>
       ELSE UncertaintyRun(args, pool)

\* CalcImpact.uncertainty up to the dispatch of the rows
UncertaintyCall(args, pool) ==
    /\ pc = "idle"
    /\ ops' = [ops EXCEPT !.eval = @ + 1]
    /\ UNCHANGED <<files, saved>>
    /\ IF DfEmpty(samples_df(unc_output))
       THEN /\ last' = Last("uncertainty", args, Raise("ValueError"), 0, pool)
            /\ n_calls' = 0
            /\ UNCHANGED <<unc_output, calc_impact, pc, call, results>>
       ELSE UncertaintyRun(args, pool)

\* a first evaluation of the store
UncertaintyStart(args, pool) ==
    /\ ops.eval < MaxEvals
    /\ UncertaintyCall(args, pool)

\* an evaluation of a store that was analysed since
UncertaintyAgain(args, pool) ==
    /\ ops.eval >= MaxEvals
    /\ ops.eval < MaxEvals + ops.sens
    /\ UncertaintyCall(args, pool)

\* CalcCostBenefit.calc_uncertainty up to the dispatch of the rows; the
\* calibration run is made without the keyword arguments
CalcUncertaintyCall(pool, has_future, cost_benefit_kwargs) ==
    LET arg == [kwargs |-> cost_benefit_kwargs, has_future |-> has_future]
        calib == map_costben_calc(samples_df(unc_output), 1, has_future, <<>>)
    IN
    /\ pc = "idle"
    /\ ops' = [ops EXCEPT !.eval = @ + 1]
    /\ UNCHANGED <<files, saved, calc_impact>>
    /\ IF DfEmpty(samples_df(unc_output))
       THEN /\ last' = Last("calc_uncertainty", arg, Raise("ValueError"), 0, pool)
            /\ n_calls' = 0
            /\ UNCHANGED <<unc_output, pc, call, results>>
       ELSE /\ unc_output' = SetAttr(unc_output, "unit", StrV(ValueUnit))
            /\ n_calls' = IF InvokesModel(calib) THEN 1 ELSE 0
            /\ results' = <<>>
            /\ IF calib.type = "raise"
               THEN /\ last' = [Last("calc_uncertainty", arg, calib, 0, pool)
                                   EXCEPT !.row = 1]
                    /\ UNCHANGED <<pc, call>>
               ELSE /\ call' = Dispatch("costben", pool, cost_benefit_kwargs,
                                        has_future)
                    /\ pc' = "fanout"
                    /\ last' = [Last("calc_uncertainty", arg,
                                     [type |-> "running"], 0, pool)
                                   EXCEPT !.calib = [kwargs |-> <<>>,
                                                     ret |-> calib]]

CalcUncertaintyStart(pool, has_future, cost_benefit_kwargs) ==
    /\ ops.eval < MaxEvals
    /\ CalcUncertaintyCall(pool, has_future, cost_benefit_kwargs)

CalcUncertaintyAgain(pool, has_future, cost_benefit_kwargs) ==
    /\ ops.eval >= MaxEvals
    /\ ops.eval < MaxEvals + ops.sens
    /\ CalcUncertaintyCall(pool, has_future, cost_benefit_kwargs)

Pending == (1..n_samples(unc_output)) \ {results[j].i : j \in DOMAIN results}

\* the rows whose evaluation raised, in order of completion
Failed == SelectSeq(results, LAMBDA r : r.v.type = "raise")

EvalRow_ReusesCalibration(i) ==
    /\ pc = "fanout"
    /\ i \in Pending
    /\ call.pool \/ (Failed = <<>> /\ \A j \in Pending : i <= j)
    /\ LET v == IF call.calc = "impact"
                THEN map_impact_calc(calc_impact, samples_df(unc_output), i)
                ELSE map_costben_calc(samples_df(unc_output), i, call.has_future,
                                      IF i = 1 THEN <<>> ELSE call.kwargs)
       IN /\ results' = Append(results, [i |-> i, v |-> v])
          /\ n_calls' = n_calls + (IF InvokesModel(v) /\ i # 1 THEN 1 ELSE 0)
    /\ UNCHANGED <<unc_output, calc_impact, pc, call, files, saved, last, ops>>

\* one row is evaluated: map() takes the rows in order and stops at the first
\* exception, the workers of the pool take the rows in any order
EvalRow(i) ==
    /\ pc = "fanout"
    /\ i \in Pending
    /\ call.pool \/ (Failed = <<>> /\ \A j \in Pending : i <= j)
    /\ LET v == IF call.calc = "impact"
                THEN map_impact_calc(calc_impact, samples_df(unc_output), i)
                ELSE map_costben_calc(samples_df(unc_output), i,
                                      call.has_future, call.kwargs)
       IN /\ results' = Append(results, [i |-> i, v |-> v])
          /\ n_calls' = n_calls + (IF InvokesModel(v) THEN 1 ELSE 0)
    /\ UNCHANGED <<unc_output, calc_impact, pc, call, files, saved, last, ops>>

MapRaises_KeepsCompleted ==
    LET good == SelectSeq(results, LAMBDA r : r.v.type = "list") IN
    /\ pc = "fanout"
    /\ Failed # <<>> \/ (call.pool /\ results = <<>>)
    /\ pc' = "idle"
    /\ call' = NoCall
    /\ results' = <<>>
    /\ unc_output' =
          IF good = <<>> THEN unc_output
          ELSE IF call.calc = "impact"
          THEN ImpactFanIn(unc_output, [j \in DOMAIN good |-> good[j].v],
                           calc_impact.rp.l)
          ELSE CostBenFanIn(unc_output, [j \in DOMAIN good |-> good[j].v],
                            call.kwargs)
    /\ last' = [last EXCEPT !.ret = IF Failed # <<>> THEN Failed[1].v
                                   ELSE Raise("TypeError"),
                            !.row = IF Failed # <<>> THEN Failed[1].i ELSE 0,
                            !.order = [j \in DOMAIN results |-> results[j].i]]
    /\ UNCHANGED <<calc_impact, n_calls, files, saved, ops>>

\* the exception leaves uncertainty() / calc_uncertainty(): the one of the
\* first row that failed, or the TypeError of a pool whose map hands the
\* keyword 'chunsize' on to multiprocess; nothing is assigned to the store
MapRaises ==
    /\ pc = "fanout"
    /\ Failed # <<>> \/ (call.pool /\ results = <<>>)
    /\ pc' = "idle"
    /\ call' = NoCall
    /\ results' = <<>>
    /\ last' = [last EXCEPT !.ret = IF Failed # <<>> THEN Failed[1].v
                                   ELSE Raise("TypeError"),
                            !.row = IF Failed # <<>> THEN Failed[1].i ELSE 0,
                            !.order = [j \in DOMAIN results |-> results[j].i]]
    /\ UNCHANGED <<unc_output, calc_impact, n_calls, files, saved, ops>>

MapResult_Unordered(res) == [j \in DOMAIN res |-> res[j].v]

\* what map() and pool.map() return: the results in the order of the rows
MapResult(res) ==
    [i \in 1..Len(res) |-> res[CHOOSE j \in DOMAIN res : res[j].i = i].v]

\* pd.DataFrame(freq_curve_list, columns=[... for n in rp]) raises ValueError
\* when a row has not one value per column
ColumnsMismatch(imp_metrics, rp) ==
    \E i \in DOMAIN imp_metrics : Len(imp_metrics[i].l[2].v) # Len(rp)

\* list(zip(*metrics)) and the assignments to the store; the columns of the
\* return periods are named from the argument rp of the call
FanIn ==
    LET rp == Settings(last.arg).rp.l
        mismatch == call.calc = "impact" /\ ColumnsMismatch(MapResult(results), rp)
    IN
    /\ pc = "fanout"
    /\ Pending = {}
    /\ Failed = <<>>
    /\ unc_output' =
          IF mismatch
          THEN SetAttr(unc_output, UncName("aai_agg"),
                       ScalarFrame(Column(MapResult(results), 1), "aai_agg"))
          ELSE IF call.calc = "impact"
          THEN ImpactFanIn(unc_output, MapResult(results), rp)
          ELSE CostBenFanIn(unc_output, MapResult(results), call.kwargs)
    /\ pc' = "idle"
    /\ call' = NoCall
    /\ results' = <<>>
    /\ last' = [last EXCEPT !.ret = IF mismatch THEN Raise("ValueError")
                                   ELSE None,
                            !.chunksize = call.chunksize,
                            !.dispatched = call.dispatched,
                            !.order = [j \in DOMAIN results |-> results[j].i]]
    /\ UNCHANGED <<calc_impact, n_calls, files, saved, ops>>

\* a second uncertainty() call on the same CalcImpact object, made from
\* another thread for another store with other arguments, assigns its
\* settings to self while the lazy map of this call is evaluating its rows
OtherCallSettings(args) ==
    /\ pc = "fanout"
    /\ call.calc = "impact"
    /\ ~call.pool
    /\ calc_impact = Settings(last.arg)
    /\ Settings(args) # calc_impact
    /\ calc_impact' = Settings(args)
    /\ UNCHANGED <<unc_output, pc, call, results, n_calls, files, saved, last,
                   ops>>

\* ---------------------------------------------------------------- other calls
HasTables(self, metric_names) ==
    \A k \in DOMAIN metric_names :
        /\ HasAttr(self, UncName(metric_names[k]))
        /\ IsDataFrame(GetAttr(self, UncName(metric_names[k])))

SensKwargs == { <<>>, << <<"calc_second_order", BoolV(TRUE)>> >> }

\* the sensitivity step of an evaluator on an evaluated store
SensitivityCall(metric_names, sensitivity_method, sensitivity_kwargs) ==
    /\ pc = "idle"
    /\ ops.sens < MaxSens
    /\ HasTables(unc_output, metric_names)
    /\ check_salib(unc_output, sensitivity_method).ret.type = "bool"
    /\ unc_output' = Sensitivity(unc_output, metric_names, sensitivity_method,
                                 sensitivity_kwargs)
    /\ last' = Last("sensitivity", StrV(sensitivity_method), None,
                    check_salib(unc_output, sensitivity_method).warnings, FALSE)
    /\ ops' = [ops EXCEPT !.sens = @ + 1]
    /\ UNCHANGED <<calc_impact, pc, call, results, n_calls, files, saved>>

ToHdf5(filename) ==
    /\ pc = "idle"
    /\ ops.save < MaxSaves
    /\ LET r == to_hdf5(unc_output, files, filename)
           save_path == SavePath(filename)
       IN /\ files' = r.fs
          /\ saved' = [saved EXCEPT ![save_path] =
                          IF r.ret.type = "str" THEN [type |-> "UncOutput",
                                                      dict |-> unc_output]
                          ELSE NotSaved]
          /\ last' = Last("to_hdf5", filename, r.ret, 0, FALSE)
    /\ ops' = [ops EXCEPT !.save = @ + 1]
    /\ UNCHANGED <<unc_output, calc_impact, pc, call, results, n_calls>>

FromHdf5(filename) ==
    /\ pc = "idle"
    /\ LET r == from_hdf5(files, filename)
       IN /\ files' = r.fs
          /\ last' = Last("from_hdf5", StrV(filename), r.ret, 0, FALSE)
    /\ UNCHANGED <<unc_output, calc_impact, pc, call, results, n_calls, saved, ops>>

SensitivityMethods == DOMAIN SALIB_COMPATIBILITY \cup {"unknown"}

CheckSalib(sensitivity_method) ==
    /\ pc = "idle"
    /\ LET r == check_salib(unc_output, sensitivity_method)
       IN last' = Last("check_salib", StrV(sensitivity_method), r.ret, r.warnings, FALSE)
    /\ UNCHANGED <<unc_output, calc_impact, pc, call, results, n_calls, files,
                   saved, ops>>

\* the metric lists get_uncertainty is asked for
MetricLists ==
    { None, List(<<"unknown_unc_df">>), List(<<UncName("aai_agg")>>),
      List(<<UncName("aai_agg"), UncName("eai_exp")>>) }

\* metric lists that name a table of the store and a name it does not have
MixedLists ==
    { List(<<UncName("aai_agg"), "unknown_unc_df">>),
      List(<<"unknown_unc_df", UncName("aai_agg")>>),
      List(<<UncName("aai_agg"), UncName("freq_curve")>>) }

GetUncertainty(metric_list) ==
    /\ pc = "idle"
    /\ last' = Last("get_uncertainty", metric_list,
                    get_uncertainty(unc_output, metric_list), 0, FALSE)
    /\ UNCHANGED <<unc_output, calc_impact, pc, call, results, n_calls, files,
                   saved, ops>>

\* the indices and the metric lists get_sensitivity is asked for
SensIndices == {"S1", "ST", "S2"}

SensLists ==
    { None, List(<<SensName("aai_agg")>>),
      List(<<"unknown_sens_df", SensName("freq_curve"), SensName("aai_agg")>>),
      List(<<SensName("eai_exp"), SensName("tot_climate_risk"),
             SensName("benefit")>>) }

GetSensitivity(salib_si, metric_list) ==
    /\ pc = "idle"
    /\ last' = Last("get_sensitivity", [si |-> salib_si, metric_list |-> metric_list],
                    get_sensitivity(unc_output, salib_si, metric_list), 0, FALSE)
    /\ UNCHANGED <<unc_output, calc_impact, pc, call, results, n_calls, files,
                   saved, ops>>

\* names a caller may give to a table it keeps on the store
OtherNames == {"unc_sens_df", "aai_agg_unc_df_old"}

\* unc_output.<name> = table: an assignment from outside the class, the way
\* the evaluators put their tables on the store
SetTable(name) ==
    /\ pc = "idle"
    /\ ~HasAttr(unc_output, name)
    /\ unc_output' = SetAttr(unc_output, name, ScalarFrame(<<1>>, "value"))
    /\ last' = Last("setattr", StrV(name), None, 0, FALSE)
    /\ UNCHANGED <<calc_impact, pc, call, results, n_calls, files, saved, ops>>

PlotRpUncertainty ==
    /\ pc = "idle"
    /\ last' = Last("plot_rp_uncertainty", None, plot_rp_uncertainty(unc_output),
                    0, FALSE)
    /\ UNCHANGED <<unc_output, calc_impact, pc, call, results, n_calls, files,
                   saved, ops>>

\* the two evaluators
NextEval ==
    \/ \E args \in ImpactArgs, pool \in BOOLEAN : UncertaintyStart(args, pool)
    \/ \E pool \in BOOLEAN, has_future \in BOOLEAN, kw \in CostBenKwargs :
          CalcUncertaintyStart(pool, has_future, kw)
    \/ \E i \in 1..MaxN : EvalRow(i)
    \/ MapRaises
    \/ FanIn

NextSens ==
    \E kw \in SensKwargs :
        \/ SensitivityCall(ImpactMetricNames, "sobol", kw)
        \/ SensitivityCall(CostBenMetricNames, "sobol", kw)

\* the queries of the store
NextQuery ==
    \/ NextEval
    \/ NextSens
    \/ \E m \in SensitivityMethods : CheckSalib(m)
    \/ \E ml \in MetricLists : GetUncertainty(ml)

\* the sensitivity indices of an analysed store
NextIndices ==
    \/ NextEval
    \/ NextSens
    \/ \E si \in SensIndices, ml \in SensLists : GetSensitivity(si, ml)

\* created, evaluated, analysed and evaluated again
NextLifecycle ==
    \/ NextEval
    \/ NextSens
    \/ \E args \in ImpactArgs, pool \in BOOLEAN : UncertaintyAgain(args, pool)
    \/ \E pool \in BOOLEAN, has_future \in BOOLEAN, kw \in CostBenKwargs :
          CalcUncertaintyAgain(pool, has_future, kw)

\* a store that also holds tables of its caller
NextTables ==
    \/ NextEval
    \/ \E name \in OtherNames : SetTable(name)

\* the plot of the return periods of an evaluated store
NextPlot ==
    \/ NextEval
    \/ PlotRpUncertainty

\* queries for tables the store holds together with names it does not hold
NextMixed ==
    \/ NextEval
    \/ \E ml \in MixedLists : GetUncertainty(ml)

\* two calls that share one CalcImpact object
NextShared ==
    \/ NextEval
    \/ \E args \in ImpactArgs : OtherCallSettings(args)

\* saving and loading the store
NextHdf ==
    \/ NextEval
    \/ NextSens
    \/ ToHdf5(StrV("out"))
    \/ \E p \in Paths : FromHdf5(p)

Next == NextQuery \/ NextHdf

Spec == Init /\ [][Next]_vars

SpecEval == Init /\ [][NextEval]_vars

SpecAnySamples == InitAnySamples /\ [][NextEval]_vars

SpecQuery == Init /\ [][NextQuery]_vars

SpecHdf == Init /\ [][NextHdf]_vars

SpecIndices == Init /\ [][NextIndices]_vars

SpecTables == Init /\ [][NextTables]_vars

SpecLifecycle == Init /\ [][NextLifecycle]_vars

SpecMeasures == InitMeasures /\ [][NextEval]_vars

SpecMixed == Init /\ [][NextMixed]_vars

SpecShared == Init /\ [][NextShared]_vars

SpecPlot == Init /\ [][NextPlot]_vars

\* ---------------------------------------------------------------- properties
EvalOps == {"uncertainty", "calc_uncertainty"}

\* uncertainty() / calc_uncertainty() has just returned normally
EvalDone == pc = "idle" /\ last.op \in EvalOps /\ last.ret.type = "NoneType"

MetricNamesOf(op) ==
    IF op = "uncertainty" THEN ImpactMetricNames ELSE CostBenMetricNames

SampleRow(i) == RowDict(samples_df(unc_output), i, ImpactLabels)

\* the per-measure dictionaries of the rows in the completed calc_uncertainty
\* call: k = 1 for the present period, k = 2 for the future period
ImpMeasDicts(k) ==
    [i \in 1..n_samples(unc_output) |->
        map_costben_calc(samples_df(unc_output), i, last.arg.has_future,
                         last.arg.kwargs).l[k].v]

C2_RowsInSampleOrder ==
    EvalDone =>
        \A i \in 1..n_samples(unc_output) :
            IF last.op = "uncertainty"
            THEN LET imp == ImpactModel(SampleRow(i)) IN
                 /\ GetAttr(unc_output, "aai_agg_unc_df").data[i] = <<imp.aai_agg>>
                 /\ GetAttr(unc_output, "freq_curve_unc_df").data[i] =
                       [k \in DOMAIN calc_impact.rp.l |->
                           imp.freq_curve[calc_impact.rp.l[k]]]
                 /\ calc_impact.calc_eai_exp.b =>
                       GetAttr(unc_output, "eai_exp_unc_df").data[i] = imp.eai_exp
                 /\ calc_impact.calc_at_event.b =>
                       GetAttr(unc_output, "at_event_unc_df").data[i] = imp.at_event
                 /\ GetAttr(unc_output, "tot_value_unc_df").data[i] = <<imp.tot_value>>
            ELSE LET cb == CostBenefitModel(SampleRow(i), last.arg.has_future,
                                            last.arg.kwargs) IN
                 /\ GetAttr(unc_output, "tot_climate_risk_unc_df").data[i] =
                       <<cb.tot_climate_risk>>
                 /\ GetAttr(unc_output, "benefit_unc_df").data[i] =
                       [k \in DOMAIN cb.benefit |-> cb.benefit[k][2]]
                 /\ GetAttr(unc_output, "cost_ben_ratio_unc_df").data[i] =
                       [k \in DOMAIN cb.cost_ben_ratio |-> cb.cost_ben_ratio[k][2]]
                 /\ GetAttr(unc_output, "imp_meas_future_unc_df").data[i][1] =
                       cb.imp_meas_future[1][2].risk

\* a pool run on two different rows in which row 1 was completed before row 0
C2_Witness ==
    /\ EvalDone
    /\ last.op = "uncertainty"
    /\ last.pool
    /\ last.order = <<2, 1>>
    /\ samples_df(unc_output).data = << <<0>>, <<1>> >>
    /\ GetAttr(unc_output, "aai_agg_unc_df").data = << <<10>>, <<11>> >>

\* C3: on a store without sample rows uncertainty() / calc_uncertainty()
\* raises ValueError, runs the risk model zero times and leaves the store as
\* it was.
C3_EmptySamplesRejected ==
    (last.op \in EvalOps /\ DfEmpty(samples_df(last.pre))) =>
        /\ last.ret = Raise("ValueError")
        /\ n_calls = 0
        /\ pc = "idle"
        /\ unc_output = last.pre

C3_Witness ==
    /\ last.op = "uncertainty"
    /\ n_samples(last.pre) = 0
    /\ last.ret = Raise("ValueError")
    /\ GetAttr(unc_output, "unit") = None

\* a requested name that is no attribute of the store the call was made on
HasUnknownName ==
    /\ last.arg.type = "list"
    /\ \E i \in DOMAIN last.arg.l : ~HasAttr(last.pre, last.arg.l[i])

\* C4: get_uncertainty(metric_list) with a name that is not an attribute of
\* the store returns an empty table and does not raise, whatever the store
\* holds.
C4_UnknownMetricGivesEmptyTable ==
    (last.op = "get_uncertainty" /\ HasUnknownName) =>
        /\ last.ret.type = "DataFrame"
        /\ DfEmpty(last.ret)

\* an unknown name asked of a store that holds uncertainty tables
C4_Witness ==
    /\ last.op = "get_uncertainty"
    /\ last.arg = List(<<"unknown_unc_df">>)
    /\ uncertainty_metrics(last.pre) # <<>>
    /\ last.ret = EmptyDataFrame

\* C5 as stated: in every state of the store get_uncertainty() without
\* argument does not raise and returns the non-empty uncertainty tables side
\* by side (no columns when there is none).
C5_NoArgumentNeverRaises ==
    (last.op = "get_uncertainty" /\ last.arg.type = "NoneType") =>
        /\ last.ret.type = "DataFrame"
        /\ last.ret.columns =
              Flatten([k \in DOMAIN uncertainty_metrics(last.pre) |->
                          GetAttr(last.pre, uncertainty_metrics(last.pre)[k]).columns])

\* the sampling method recorded on the store the call was made on
RecordedMethod == DictGet(samples_df(last.pre).attrs, "sampling_method").s

\* C6: when a sampling method is recorded and m is a key of
\* SALIB_COMPATIBILITY, check_salib(m) returns True exactly when the sampling
\* method is listed under m, and logs a warning exactly when it returns
\* False; check_salib('sobol') is True for 'saltelli' only.
C6_CheckSalibFollowsTable ==
    (/\ last.op = "check_salib"
     /\ last.arg.s \in DOMAIN SALIB_COMPATIBILITY
     /\ DictHas(samples_df(last.pre).attrs, "sampling_method")) =>
        /\ last.ret.type = "bool"
        /\ last.ret.b <=>
              \E k \in DOMAIN SALIB_COMPATIBILITY[last.arg.s] :
                  SALIB_COMPATIBILITY[last.arg.s][k] = RecordedMethod
        /\ last.arg.s = "sobol" => (last.ret.b <=> RecordedMethod = "saltelli")
        /\ last.warnings = (IF last.ret.b THEN 0 ELSE 1)

\* sobol asked of latin samples: False and one warning
C6_Witness ==
    /\ last.op = "check_salib"
    /\ last.arg.s = "sobol"
    /\ DictHas(samples_df(last.pre).attrs, "sampling_method")
    /\ RecordedMethod = "latin"
    /\ last.ret = BoolV(FALSE)
    /\ last.warnings = 1

\* C7 as stated: check_salib never raises and returns a boolean for every
\* sensitivity method name and every store.
C7_CheckSalibNeverRaises ==
    last.op = "check_salib" => last.ret.type = "bool"

\* the tables of a store: the attributes that are DataFrames, by name
Tables(dict) == {dict[i] : i \in {j \in DOMAIN dict : IsDataFrame(dict[j].v)}}

\* property sampling_kwargs
sampling_kwargs(self) == DictGet(samples_df(self).attrs, "sampling_kwargs")

C9_SaveFromEveryState ==
    last.op = "to_hdf5" =>
        /\ last.ret.type = "str"
        /\ \A t \in Tables(last.pre) :
              /\ ("/" \o t.k) \in DOMAIN files[last.ret.s].store
              /\ files[last.ret.s].store["/" \o t.k] = t.v

\* C10: from_hdf5 on a path that does not exist returns None, raises nothing
\* and creates no file.
C10_MissingFileGivesNone ==
    (last.op = "from_hdf5" /\ ~last.pre_files[last.arg.s].exists) =>
        /\ last.ret = None
        /\ files = last.pre_files

\* the store was saved as out.hdf5; the path out itself does not exist
C10_Witness ==
    /\ last.op = "from_hdf5"
    /\ last.arg = StrV("out")
    /\ last.ret = None
    /\ files["out.hdf5"].exists
    /\ ~files["out"].exists

\* the tables get_sensitivity was asked for that the store holds and that are
\* not empty, in the order asked
SensRequested ==
    LET ml == IF last.arg.metric_list.type = "NoneType"
              THEN sensitivity_metrics(last.pre)
              ELSE last.arg.metric_list.l
        names == SelectSeq(ml, LAMBDA m : /\ HasAttr(last.pre, m)
                                          /\ ~DfEmpty(GetAttr(last.pre, m)))
    IN [k \in DOMAIN names |-> GetAttr(last.pre, names[k])]

\* the rows of a sensitivity table tagged with the index si; the descriptor
\* columns si and param are its first two columns
Tagged(df, si) == SelectSeq(df.data, LAMBDA row : row[1] = StrV(si))

\* C11: get_sensitivity(si, metric_list) returns a table whose rows are all
\* tagged si: the descriptor columns of the first requested table that has
\* rows for si, then the numeric columns of every requested non-empty table,
\* row j holding the numbers of the j-th row tagged si of each table; without
\* a row tagged si in any table the result has no row.
C11_OnlyRowsOfIndex ==
    last.op = "get_sensitivity" =>
        LET si == last.arg.si
            tabs == SensRequested
            with == SelectSeq(tabs, LAMBDA t : Tagged(t, si) # <<>>)
            ret == last.ret
        IN /\ ret.type = "DataFrame"
           /\ \A j \in 1..NRows(ret) : ret.data[j][1] = StrV(si)
           /\ with = <<>> => NRows(ret) = 0
           /\ with # <<>> =>
                 /\ ret.columns =
                       <<"si", "param">> \o
                       Flatten([k \in DOMAIN tabs |->
                                   SubSeq(tabs[k].columns, 3, Len(tabs[k].columns))])
                 /\ NRows(ret) = Len(Tagged(with[1], si))
                 /\ \A j \in 1..NRows(ret) :
                       ret.data[j] =
                          SubSeq(Tagged(with[1], si)[j], 1, 2) \o
                          Flatten([k \in DOMAIN tabs |->
                                      SubSeq(Tagged(tabs[k], si)[j], 3,
                                             Len(tabs[k].columns))])

\* S1 asked of two tables (and of an unknown name) on an analysed store whose
\* tables also hold rows tagged S1_conf and ST
C11_Witness ==
    /\ last.op = "get_sensitivity"
    /\ last.arg.si = "S1"
    /\ last.arg.metric_list =
          List(<<"unknown_sens_df", SensName("freq_curve"), SensName("aai_agg")>>)
    /\ Len(SensRequested) = 2
    /\ Tagged(SensRequested[1], "ST") # <<>>
    /\ Tagged(SensRequested[1], "S1_conf") # <<>>
    /\ NRows(last.ret) = 1
    /\ Len(last.ret.columns) >= 4
    /\ last.ret.data[1][1] = StrV("S1")

\* the metric of the given name of the impact of sample row i, as the
\* evaluator extracts it
ImpactMetric(name, i) ==
    LET imp == ImpactModel(SampleRow(i)) IN
    CASE name = "aai_agg" -> Float(imp.aai_agg)
      [] name = "freq_curve" ->
            NdArray([k \in DOMAIN calc_impact.rp.l |->
                        imp.freq_curve[calc_impact.rp.l[k]]])
      [] name = "eai_exp" ->
            NdArray(IF calc_impact.calc_eai_exp.b THEN imp.eai_exp ELSE <<>>)
      [] name = "at_event" ->
            NdArray(IF calc_impact.calc_at_event.b THEN imp.at_event ELSE <<>>)
      [] name = "tot_value" -> Float(imp.tot_value)

\* the metric of the given name of the cost benefit of sample row i
CostBenMetric(name, i) ==
    LET cb == CostBenefitModel(SampleRow(i), call.has_future, call.kwargs) IN
    CASE name = "tot_climate_risk" -> Float(cb.tot_climate_risk)
      [] name = "benefit" -> Dict(cb.benefit)
      [] name = "cost_ben_ratio" -> Dict(cb.cost_ben_ratio)
      [] name = "imp_meas_present" -> Dict(cb.imp_meas_present)
      [] name = "imp_meas_future" -> Dict(cb.imp_meas_future)

SameValue(a, b) == a.type = b.type /\ a.v = b.v

\* position k of every list returned so far in the running call is the
\* metric named names[k]
ReturnedInOrder(calc, names) ==
    (pc = "fanout" /\ call.calc = calc) =>
        \A j \in DOMAIN results :
            results[j].v.type = "list" =>
                \A k \in DOMAIN names :
                    SameValue(results[j].v.l[k],
                              IF calc = "impact"
                              THEN ImpactMetric(names[k], results[j].i)
                              ELSE CostBenMetric(names[k], results[j].i))

\* C12 as stated: position k of the list returned by _map_impact_calc /
\* _map_costben_calc is the metric named metric_names[k].
C12_OrderOfMetricNames ==
    /\ ReturnedInOrder("impact", ImpactMetricNames)
    /\ ReturnedInOrder("costben", CostBenMetricNames)

ImpactReturnOrder == <<"aai_agg", "freq_curve", "eai_exp", "at_event", "tot_value">>

CostBenReturnOrder == <<"imp_meas_present", "imp_meas_future", "tot_climate_risk",
                        "benefit", "cost_ben_ratio">>

\* C12 amended: the lists are returned in a fixed order that is a permutation
\* of metric_names: aai_agg, freq_curve, eai_exp, at_event, tot_value for
\* _map_impact_calc and imp_meas_present, imp_meas_future, tot_climate_risk,
\* benefit, cost_ben_ratio for _map_costben_calc.
C12_FixedReturnOrder ==
    /\ ReturnedInOrder("impact", ImpactReturnOrder)
    /\ ReturnedInOrder("costben", CostBenReturnOrder)
    /\ Range(ImpactReturnOrder) = Range(ImpactMetricNames)
    /\ Range(CostBenReturnOrder) = Range(CostBenMetricNames)

\* a row evaluated with calc_at_event on: position 4 holds at_event, where
\* metric_names has eai_exp
C12_Witness ==
    /\ pc = "fanout"
    /\ call.calc = "impact"
    /\ calc_impact.calc_at_event.b
    /\ Len(results) = 1
    /\ results[1].v.type = "list"
    /\ results[1].v.l[4] = NdArray(<<ParamOf(SampleRow(results[1].i)) + 2>>)
    /\ results[1].v.l[3] = NdArray(<<>>)

\* the metric at position k of the returned list is switched off in the
\* running or the completed uncertainty() call
ToggledOff(k) ==
    IF k = 3 THEN ~calc_impact.calc_eai_exp.b ELSE ~calc_impact.calc_at_event.b

\* C13: with calc_eai_exp (calc_at_event) off every row's list holds an empty
\* array for eai_exp (at_event), never None; after uncertainty() the table
\* eai_exp_unc_df (at_event_unc_df) is on the store, is empty and is not
\* listed by uncertainty_metrics, and the tables of aai_agg, freq_curve and
\* tot_value have N rows.
C13_TogglesOffGiveEmptyTables ==
    \A k \in {3, 4} :
        LET name == UncName(ImpactReturnOrder[k]) IN
        /\ (pc = "fanout" /\ call.calc = "impact" /\ ToggledOff(k)) =>
              \A j \in DOMAIN results :
                  results[j].v.type = "list" =>
                      results[j].v.l[k] = NdArray(<<>>)
        /\ (EvalDone /\ last.op = "uncertainty" /\ ToggledOff(k)) =>
              /\ HasAttr(unc_output, name)
              /\ IsDataFrame(GetAttr(unc_output, name))
              /\ DfEmpty(GetAttr(unc_output, name))
              /\ name \notin Range(uncertainty_metrics(unc_output))
              /\ \A m \in {"aai_agg", "freq_curve", "tot_value"} :
                    /\ NRows(GetAttr(unc_output, UncName(m))) = n_samples(unc_output)
                    /\ UncName(m) \in Range(uncertainty_metrics(unc_output))

\* two rows evaluated with calc_eai_exp off and calc_at_event on
C13_Witness ==
    /\ EvalDone
    /\ last.op = "uncertainty"
    /\ ~calc_impact.calc_eai_exp.b
    /\ calc_impact.calc_at_event.b
    /\ n_samples(unc_output) = 2
    /\ DfEmpty(GetAttr(unc_output, "eai_exp_unc_df"))
    /\ NRows(GetAttr(unc_output, "at_event_unc_df")) = 2
    /\ uncertainty_metrics(unc_output) =
          <<"aai_agg_unc_df", "freq_curve_unc_df", "at_event_unc_df",
            "tot_value_unc_df">>

EndsWith(name, suffix) ==
    /\ Len(name) >= Len(suffix)
    /\ SubSeq(name, Len(name) - Len(suffix) + 1, Len(name)) = suffix

\* the names of the non-empty tables of a store that end with the suffix
TablesWithSuffix(self, suffix) ==
    {self[i].k : i \in {j \in DOMAIN self : /\ IsDataFrame(self[j].v)
                                            /\ ~DfEmpty(self[j].v)
                                            /\ EndsWith(self[j].k, suffix)}}

\* C14 as stated: uncertainty_metrics (sensitivity_metrics) returns exactly the
\* names of the attributes that are non-empty tables and end with '_unc_df'
\* ('_sens_df'), whatever attributes the store holds.
C14_MetricsListedBySuffix ==
    /\ Range(uncertainty_metrics(unc_output)) = TablesWithSuffix(unc_output, "_unc_df")
    /\ Range(sensitivity_metrics(unc_output)) = TablesWithSuffix(unc_output, "_sens_df")

\* uncertainty() / calc_uncertainty() ended with the exception of a sample row
RowFailed ==
    /\ pc = "idle"
    /\ last.op \in EvalOps
    /\ last.ret.type = "raise"
    /\ last.row > 0

\* the uncertainty tables the evaluators assign
EvaluatorTables ==
    {UncName(ImpactMetricNames[k]) : k \in DOMAIN ImpactMetricNames}
    \cup {UncName(CostBenMetricNames[k]) : k \in DOMAIN CostBenMetricNames}

\* C15: when the evaluation of a sample row raises, the call ends with that
\* exception, every row was evaluated at most once (the calibration run of
\* row 0 apart), and the tables of the store are the ones it had before the
\* call; no table of the store is ever built from a part of the rows.
C15_FailedRowLeavesStore ==
    /\ RowFailed =>
          /\ last.ret.exc \in {"KeyError", "ValueError"}
          /\ Tables(unc_output) = Tables(last.pre)
          /\ \A j, k \in DOMAIN last.order : last.order[j] = last.order[k] => j = k
          /\ n_calls <= 1 + Len(last.order)
    /\ \A name \in EvaluatorTables \ {"imp_meas_present_unc_df",
                                      "imp_meas_future_unc_df"} :
          HasAttr(unc_output, name) =>
              NRows(GetAttr(unc_output, name)) = n_samples(unc_output)

\* the risk model rejects the second of two rows of a store that holds the
\* tables of an earlier evaluation: three model runs, the tables are kept
C15_Witness ==
    /\ RowFailed
    /\ last.op = "uncertainty"
    /\ ~last.pool
    /\ n_samples(unc_output) = 2
    /\ last.row = 2
    /\ last.ret = ModelError
    /\ n_calls = 3
    /\ HasAttr(unc_output, "aai_agg_unc_df")
    /\ GetAttr(unc_output, "aai_agg_unc_df") = EarlierTables(2).aai_agg

\* C16 as stated: when the evaluation of sample row k fails, the exception
\* that leaves uncertainty() / calc_uncertainty() names the row index k.
C16_ErrorNamesRow ==
    RowFailed => last.row \in last.ret.rows

\* the labels of the input variables of the evaluator of the given call
LabelsOf(op) == IF op = "uncertainty" THEN ImpactLabels ELSE CostBenLabels

\* C17 as stated: when the columns of the samples are not exactly the labels
\* of the evaluator's input variables, uncertainty() / calc_uncertainty() ends
\* with an exception and the risk model is not invoked for any row.
C17_ColumnMismatchRejected ==
    (/\ last.op \in EvalOps
     /\ Range(samples_df(last.pre).columns) # Range(LabelsOf(last.op))) =>
        /\ pc = "idle"
        /\ last.ret.type = "raise"
        /\ n_calls = 0

\* two attribute values are the same; tuples of items are compared as
\* mappings, whatever the order of their items
SameAttr(a, b) ==
    IF a.type = "tuple" /\ b.type = "tuple" THEN Range(a.items) = Range(b.items)
    ELSE a = b

\* C18 as stated: a store loaded from a file that a completed to_hdf5 wrote
\* holds every attribute of the saved store with the same value, the record
\* cost_benefit_kwargs of calc_uncertainty included.
C18_EveryAttributeRoundTrips ==
    (last.op = "from_hdf5" /\ saved[last.arg.s].type = "UncOutput") =>
        /\ last.ret.type = "UncOutput"
        /\ \A i \in DOMAIN saved[last.arg.s].dict :
              LET a == saved[last.arg.s].dict[i] IN
              /\ HasAttr(last.ret.dict, a.k)
              /\ SameAttr(GetAttr(last.ret.dict, a.k), a.v)

\* the sensitivity tables of a store, by name
SensTables(self) == {t \in Tables(self) : EndsWith(t.k, "_sens_df")}

\* C19: a store created with samples only lists no uncertainty and no
\* sensitivity metric; after a successful uncertainty() / calc_uncertainty()
\* it lists uncertainty metrics, and no sensitivity metric as long as no
\* sensitivity step was made; from its start to its end an evaluation leaves
\* the sensitivity tables and samples_df as they were.
C19_Lifecycle ==
    /\ last.op = "init" =>
          /\ uncertainty_metrics(unc_output) = <<>>
          /\ sensitivity_metrics(unc_output) = <<>>
    /\ EvalDone => uncertainty_metrics(unc_output) # <<>>
    /\ ops.sens = 0 => sensitivity_metrics(unc_output) = <<>>
    /\ last.op \in EvalOps =>
          /\ SensTables(unc_output) = SensTables(last.pre)
          /\ samples_df(unc_output) = samples_df(last.pre)

\* an analysed store evaluated again by the other evaluator: the sensitivity
\* tables of the first analysis are still there
C19_Witness ==
    /\ EvalDone
    /\ last.op = "calc_uncertainty"
    /\ ops.sens = 1
    /\ ops.eval = 2
    /\ sensitivity_metrics(unc_output) # <<>>
    /\ SensTables(last.pre) # {}
    /\ HasAttr(unc_output, "aai_agg_sens_df")
    /\ HasAttr(unc_output, "tot_climate_risk_unc_df")

\* C20 as stated: with a pool the N rows are dispatched in chunks of
\* min(N // worker count, 100) rows, and that is the chunk size the map of the
\* pool dispatches with.
C20_PoolUsesComputedChunkSize ==
    (pc = "fanout" /\ call.pool) =>
        LET n == n_samples(unc_output)
            size == IF n \div NCpus < 100 THEN n \div NCpus ELSE 100
        IN /\ call.chunksize = size
           /\ call.dispatched = size

\* C21: the calibration run of row 0 is over before a row of the fan-out is
\* evaluated, the fan-out evaluates every row, row 0 again, so that a
\* successful call has invoked the risk model N + 1 times, and the tables hold
\* the results of the fan-out, not the one of the calibration run.
C21_CalibrationThenFanOut ==
    /\ pc = "fanout" =>
          /\ n_calls = 1 + Len(results)
          /\ last.ret.type = "running"
    /\ EvalDone =>
          /\ n_calls = n_samples(unc_output) + 1
          /\ Range(last.order) = 1..n_samples(unc_output)
          /\ last.op = "calc_uncertainty" =>
                GetAttr(unc_output, "tot_climate_risk_unc_df").data[1] =
                   <<CostBenefitModel(SampleRow(1), last.arg.has_future,
                                      last.arg.kwargs).tot_climate_risk>>

\* a cost-benefit call with keyword arguments on two rows: three runs of the
\* model, and row 0 of the table is not the result of the calibration run
C21_Witness ==
    /\ EvalDone
    /\ last.op = "calc_uncertainty"
    /\ last.arg.kwargs # <<>>
    /\ n_samples(unc_output) = 2
    /\ n_calls = 3
    /\ GetAttr(unc_output, "tot_climate_risk_unc_df").data[1] #
          <<CostBenefitModel(SampleRow(1), last.arg.has_future,
                             <<>>).tot_climate_risk>>

\* C22 as stated: plot_rp_uncertainty raises ValueError only when
\* freq_curve_unc_df is missing or empty; on a store whose freq_curve_unc_df
\* has rows it passes the guard and returns the axes of the plot.
C22_PlotRaisesOnlyWithoutData ==
    last.op = "plot_rp_uncertainty" =>
        LET present == /\ HasAttr(unc_output, "freq_curve_unc_df")
                       /\ IsDataFrame(GetAttr(unc_output, "freq_curve_unc_df"))
                       /\ ~DfEmpty(GetAttr(unc_output, "freq_curve_unc_df"))
        IN IF present THEN last.ret.type = "axes"
           ELSE last.ret = Raise("ValueError")

\* C23 as stated: the calibration run of row 0 in calc_uncertainty invokes
\* the cost-benefit model with the keyword arguments of the fan-out, and the
\* fan-out's evaluation of row 0 returns what the calibration run returned.
C23_CalibrationSameAsFanOut ==
    (pc = "fanout" /\ call.calc = "costben") =>
        /\ last.calib.kwargs = call.kwargs
        /\ \A j \in DOMAIN results :
              results[j].i = 1 => results[j].v = last.calib.ret

\* C24 as stated: for N >= 1 sample rows and a pool of at least one worker
\* the chunk size computed for the dispatch is at least 1, also when N is
\* smaller than the number of workers.
C24_ChunkSizePositive ==
    (pc = "fanout" /\ call.pool /\ n_samples(unc_output) >= 1 /\ NCpus >= 1) =>
        call.chunksize >= 1

C26_FailedCallChangesNothing ==
    RowFailed =>
        /\ unc_output = last.pre
        /\ GetAttr(unc_output, "unit") = GetAttr(last.pre, "unit")
        /\ calc_impact = last.pre_calc

\* the names of the measures in the per-measure dictionaries of the rows
MeasureNames(dicts) ==
    AllKeys(<<>>, [i \in DOMAIN dicts |->
                     [m \in DOMAIN dicts[i] |-> <<dicts[i][m][1], 0>>]])

\* the four columns of every measure, for the given period
MeasureColumns(names, period) ==
    Flatten([m \in DOMAIN names |->
                [k \in DOMAIN imp_metric_names |->
                    names[m] \o " - " \o imp_metric_names[k] \o " - " \o period]])

\* C27 as stated: imp_meas_present_unc_df (imp_meas_future_unc_df) has one
\* row per sample row whenever the per-measure dictionary of at least one row
\* is non-empty and is empty only when the dictionary of every row is empty;
\* its columns are the four '<measure> - <metric> - <period>' of every measure.
C27_ImpMeasRowPerSample ==
    (EvalDone /\ last.op = "calc_uncertainty") =>
        \A k \in 1..2 :
            LET period == IF k = 1 THEN "present" ELSE "future"
                df == GetAttr(unc_output, "imp_meas_" \o period \o "_unc_df")
                dicts == ImpMeasDicts(k)
            IN IF \A i \in DOMAIN dicts : dicts[i] = <<>>
               THEN DfEmpty(df)
               ELSE /\ NRows(df) = n_samples(unc_output)
                    /\ df.columns = MeasureColumns(MeasureNames(dicts), period)

\* C28 as stated: to_hdf5 called again on the same store with the filename
\* of a save that succeeded succeeds again, and the file then loads to the
\* store it loaded to after the first save.
C28_SaveIsRepeatable ==
    (/\ last.op = "to_hdf5"
     /\ last.pre_files[SavePath(last.arg)].exists
     /\ "sensitivity_kwargs" \in DOMAIN last.pre_files[SavePath(last.arg)].h5
     /\ from_hdf5(last.pre_files, SavePath(last.arg)).ret.type = "UncOutput") =>
        /\ last.ret.type = "str"
        /\ from_hdf5(files, SavePath(last.arg)).ret =
              from_hdf5(last.pre_files, SavePath(last.arg)).ret

\* the names of a metric list that are tables of the store the call started
\* from, and whether the list names such a table and an unknown name
KnownNames(ml) == SelectSeq(ml, LAMBDA m : HasAttr(last.pre, m))

MixedList ==
    /\ last.op = "get_uncertainty"
    /\ last.arg.type = "list"
    /\ KnownNames(last.arg.l) # <<>>
    /\ KnownNames(last.arg.l) # last.arg.l

\* C29 as stated: get_uncertainty with a list that names existing tables and
\* one unknown name returns the columns of the existing tables.
C29_UnknownNameContributesNothing ==
    MixedList =>
        /\ last.ret.type = "DataFrame"
        /\ last.ret = Concat1([i \in DOMAIN KnownNames(last.arg.l) |->
                                  GetAttr(last.pre, KnownNames(last.arg.l)[i])])

\* C29: get_uncertainty with a list that names existing tables and one
\* unknown name returns the empty table; a list of existing tables only
\* returns their columns side by side.
C29_UnknownNameDiscardsAll ==
    /\ MixedList => last.ret = EmptyDataFrame
    /\ (/\ last.op = "get_uncertainty"
        /\ last.arg.type = "list"
        /\ KnownNames(last.arg.l) = last.arg.l) =>
           /\ last.ret.type = "DataFrame"
           /\ last.ret.columns =
                 Flatten([i \in DOMAIN last.arg.l |->
                             GetAttr(last.pre, last.arg.l[i]).columns])

\* the table of aai_agg with two rows asked for together with an unknown name
C29_Witness ==
    /\ last.op = "get_uncertainty"
    /\ last.arg = List(<<UncName("aai_agg"), "unknown_unc_df">>)
    /\ HasAttr(last.pre, UncName("aai_agg"))
    /\ NRows(GetAttr(last.pre, UncName("aai_agg"))) = 2
    /\ last.ret = EmptyDataFrame

\* C30 as stated: when uncertainty() calls on one CalcImpact object with
\* different rp / calc_eai_exp / calc_at_event interleave, every row of a
\* call is evaluated with the settings of that call: what a row returns is a
\* function of the row and the arguments of the call that dispatched it.
C30_RowsUseSettingsOfTheirCall ==
    (pc = "fanout" /\ call.calc = "impact") =>
        \A j \in DOMAIN results :
            results[j].v = map_impact_calc(Settings(last.arg),
                                           samples_df(unc_output), results[j].i)

====
